---------------------------- MODULE Spec2Model ----------------------------
(***************************************************************************)
(* Model of the browser widgets of xyploit/ffrizyrewards:                  *)
(*   - the leaderboard pollers (assets/js/data.js registers two            *)
(*     DOMContentLoaded handlers, the later revision of the script         *)
(*     registers one),                                                     *)
(*   - the time window resolver of each poller,                            *)
(*   - the countdown (assets/js/timer.js and its later revision).          *)
(* Times of the window resolver are whole seconds since the Unix epoch:    *)
(* every Date.UTC call of the source has 0 milliseconds, so getTime() is   *)
(* 1000 times the value modelled here.  The countdown clock is in          *)
(* milliseconds relative to ModelEpochSec.                                 *)
(***************************************************************************)
EXTENDS Integers, Sequences, FiniteSets, TLC

VARIABLES
    page,              \* which leaderboard script the page loads
    loaded,            \* DOMContentLoaded has been dispatched
    dayParam,          \* urlParams.get('day')
    etYear, etMonth,   \* year / month (0-based) Intl reports for America/New_York
    rollAt,            \* number of clock reads of the handler made before the month rolls over
    startTime, endTime,      \* per handler: the resolved window (seconds)
    refreshInterval,   \* per handler: the handle kept in the closure, or Null
    leaderboardEnded,  \* per handler: the ended flag
    timers,            \* the browser's active repeating timers (handles)
    due,               \* per handler: the instant from which its timer's next run is due
    requestedAt,       \* history: per handler, the instant of its latest request
    nextSeq,           \* number of requests issued so far
    inflight,          \* requests issued and not yet resolved
    slots,             \* user0..user9: textContent of the name and wager elements
    missingEls,        \* ids of slot elements the page does not have
    now,               \* wall clock, ms relative to ModelEpochSec
    lastEvent,         \* the handler or callback that ran last, and what it logged
    endedAt,           \* history: per handler, the number of requests issued when it first
                       \* processed an ended response (0: it has not)
    timerScript,       \* which countdown script the page loads
    scriptState,       \* "pending", "running" or "aborted" (uncaught exception at top level)
    timerInterval,     \* the const of the countdown script: Uninitialized or its handle
    countdownEl,       \* innerHTML of #countdown
    timerEl,           \* innerHTML of #timer
    lastCalc,          \* the last run of calculateTimeRemaining
    expiredWrites      \* history: how many times the expired text has been written

lbVars == <<page, loaded, dayParam, etYear, etMonth, rollAt, startTime, endTime,
            refreshInterval, leaderboardEnded, nextSeq, inflight, slots, missingEls,
            due, requestedAt>>
cdVars == <<timerScript, scriptState, timerInterval, countdownEl, timerEl, lastCalc,
            expiredWrites>>
vars == <<lbVars, cdVars, timers, now, lastEvent, endedAt>>

-----------------------------------------------------------------------------
(* Bounds of the model *)

MaxRequests == 3     \* requests issued during one page load
MaxInFlight == 2     \* requests unresolved at the same time
MaxListLen == 13     \* longest response list

(* Program constants *)

MAX_PLAYERS == 10

-----------------------------------------------------------------------------
(* Date.UTC, in seconds *)

IsLeap(y) == (y % 4 = 0 /\ y % 100 # 0) \/ y % 400 = 0

DaysInMonth(y, m) ==
    IF m = 1 THEN (IF IsLeap(y) THEN 29 ELSE 28)
    ELSE IF m \in {3, 5, 8, 10} THEN 30 ELSE 31

RECURSIVE DaysBeforeMonth(_, _)
DaysBeforeMonth(y, m) ==
    IF m = 0 THEN 0 ELSE DaysBeforeMonth(y, m - 1) + DaysInMonth(y, m - 1)

DaysBeforeYear(y) ==
    365 * (y - 1970) + ((y - 1969) \div 4) - ((y - 1901) \div 100) + ((y - 1601) \div 400)

\* MakeDay / MakeTime of Date.UTC: month, day and hour overflow carry over linearly
DateUTC(year, month, day, hour, minute, second) ==
    LET y == year + (month \div 12)
        m == month % 12
    IN  (DaysBeforeYear(y) + DaysBeforeMonth(y, m) + day - 1) * 86400
            + hour * 3600 + minute * 60 + second


-----------------------------------------------------------------------------
(* parseInt, on a string given as its sequence of characters *)

NaN == [nan |-> TRUE, val |-> 0]
Num(n) == [nan |-> FALSE, val |-> n]

DecDigits == {"0", "1", "2", "3", "4", "5", "6", "7", "8", "9"}
HexDigits == DecDigits \cup {"a", "b", "c", "d", "e", "f", "A", "B", "C", "D", "E", "F"}

DigitVal(c) ==
    CASE c = "0" -> 0 [] c = "1" -> 1 [] c = "2" -> 2 [] c = "3" -> 3 [] c = "4" -> 4
      [] c = "5" -> 5 [] c = "6" -> 6 [] c = "7" -> 7 [] c = "8" -> 8 [] c = "9" -> 9
      [] c \in {"a", "A"} -> 10 [] c \in {"b", "B"} -> 11 [] c \in {"c", "C"} -> 12
      [] c \in {"d", "D"} -> 13 [] c \in {"e", "E"} -> 14 [] c \in {"f", "F"} -> 15

RECURSIVE SkipSpace(_)
SkipSpace(cs) == IF cs # <<>> /\ Head(cs) = " " THEN SkipSpace(Tail(cs)) ELSE cs

\* value of the longest prefix of digits of the radix; seen = a digit was read
RECURSIVE ReadDigits(_, _, _, _, _)
ReadDigits(cs, digits, radix, acc, seen) ==
    IF cs # <<>> /\ Head(cs) \in digits
    THEN ReadDigits(Tail(cs), digits, radix, acc * radix + DigitVal(Head(cs)), TRUE)
    ELSE IF seen THEN Num(acc) ELSE NaN

ParseInt(chars) ==
    LET s1 == SkipSpace(chars)
        neg == s1 # <<>> /\ Head(s1) = "-"
        s2 == IF s1 # <<>> /\ Head(s1) \in {"+", "-"} THEN Tail(s1) ELSE s1
        hex == Len(s2) >= 2 /\ s2[1] = "0" /\ s2[2] \in {"x", "X"}
        r == IF hex THEN ReadDigits(Tail(Tail(s2)), HexDigits, 16, 0, FALSE)
                    ELSE ReadDigits(s2, DecDigits, 10, 0, FALSE)
    IN  IF r.nan THEN NaN ELSE Num(IF neg THEN 0 - r.val ELSE r.val)

\* urlParams.get('day'): null when the parameter is absent
NullParam == [present |-> FALSE, chars |-> <<>>]
Param(cs) == [present |-> TRUE, chars |-> cs]

\* if (dayParam): null and the empty string are falsy
Truthy(param) == param.present /\ param.chars # <<>>

\* day >= 1 && day <= 31: false for NaN
DayInRange(day) == ~day.nan /\ day.val >= 1 /\ day.val <= 31

-----------------------------------------------------------------------------
(* The time window resolver *)

NoTime == 0 - 1      \* the request carries no such parameter

\* the later script revision: Eastern time by a fixed offset and a month test
createEasternDate(year, month, day, hour, minute, second) ==
    LET isDST == month >= 2 /\ month <= 10
        offsetHours == IF isDST THEN 4 ELSE 5
    IN  DateUTC(year, month, day, hour + offsetHours, minute, second)

\* the k-th read of the clock by the handler, as year and month in America/New_York
EtRead(y, m, roll, k) ==
    IF k <= roll THEN [year |-> y, month |-> m]
    ELSE IF m = 11 THEN [year |-> y + 1, month |-> 0]
    ELSE [year |-> y, month |-> m + 1]

getMonthStartEastern(read) ==
    createEasternDate(read.year, read.month, 1, 0, 0, 0)

getMonthEndEastern(read) ==
    LET lastDay == DaysInMonth(read.year, read.month)
    IN  createEasternDate(read.year, read.month, lastDay, 23, 59, 59)

\* mutant: the two ends of the day are exchanged
ResolveWindowEasternSwapped(param, y, m, roll) ==
    LET day == ParseInt(param.chars)
        read == EtRead(y, m, roll, 3)
    IN  IF Truthy(param) /\ DayInRange(day)
        THEN [startTime |-> createEasternDate(read.year, read.month, day.val, 23, 59, 59),
              endTime |-> createEasternDate(read.year, read.month, day.val, 0, 0, 0)]
        ELSE [startTime |-> getMonthStartEastern(EtRead(y, m, roll, 1)),
              endTime |-> getMonthEndEastern(EtRead(y, m, roll, 2))]

ResolveWindowEastern(param, y, m, roll) ==
    LET defaultStartTime == getMonthStartEastern(EtRead(y, m, roll, 1))
        defaultEndTime == getMonthEndEastern(EtRead(y, m, roll, 2))
        day == ParseInt(param.chars)
        read == EtRead(y, m, roll, 3)
    IN  IF Truthy(param) /\ DayInRange(day)
        THEN [startTime |-> createEasternDate(read.year, read.month, day.val, 0, 0, 0),
              endTime |-> createEasternDate(read.year, read.month, day.val, 23, 59, 59)]
        ELSE [startTime |-> defaultStartTime, endTime |-> defaultEndTime]

\* data.js, second handler: December 2025 in UTC
ResolveWindowDecember(param) ==
    LET defaultStartTime == DateUTC(2025, 11, 1, 0, 0, 0)
        defaultEndTime == DateUTC(2025, 11, 30, 23, 59, 59)
        day == ParseInt(param.chars)
    IN  IF Truthy(param) /\ DayInRange(day)
        THEN [startTime |-> DateUTC(2025, 11, day.val, 0, 0, 0),
              endTime |-> DateUTC(2025, 11, day.val, 23, 59, 59)]
        ELSE [startTime |-> defaultStartTime, endTime |-> defaultEndTime]

\* data.js, first handler: only endTime, the countdown's target
ResolveWindowTarget ==
    [startTime |-> NoTime, endTime |-> DateUTC(2025, 10, 30, 18 + 7, 59, 59)]

AllPollers == {"dataA", "dataB", "part001"}

\* the DOMContentLoaded handlers a script registers, in registration order
Handlers(pg) == IF pg = "data.js" THEN <<"dataA", "dataB">> ELSE <<"part001">>
Pollers(pg) == {Handlers(pg)[i] : i \in 1..Len(Handlers(pg))}

ResolveWindow(p, param, y, m, roll) ==
    CASE p = "dataA" -> ResolveWindowTarget
      [] p = "dataB" -> ResolveWindowDecember(param)
      [] p = "part001" -> ResolveWindowEastern(param, y, m, roll)

-----------------------------------------------------------------------------
(* Response bodies.  A wager amount is a number of cents. *)

Player(name, cents) ==
    [kind |-> "object", username |-> name, wtype |-> "number", wagerAmount |-> cents]
\* wagerAmount is a JSON string, or the field is missing
StringWager(name) ==
    [kind |-> "object", username |-> name, wtype |-> "string", wagerAmount |-> 0]
NoWager(name) ==
    [kind |-> "object", username |-> name, wtype |-> "undefined", wagerAmount |-> 0]
\* a null element of the list
NullEntry ==
    [kind |-> "null", username |-> "", wtype |-> "undefined", wagerAmount |-> 0]

\* a list of n entries, every sixth without a numeric amount, amounts not in order
LongList(n) ==
    [i \in 1..n |->
        IF i % 6 = 0 THEN StringWager("p" \o ToString(i))
        ELSE Player("p" \o ToString(i), ((i * 7) % 13) * 100050)]

MixedList ==
    <<Player("al", 30000), StringWager("bo"), Player("cy", 50000), NullEntry,
      Player("", 0), NoWager("di"), Player("ed", 50000), Player("gi", 0 - 250),
      Player("ha", 123456789)>>

Lists ==
    { <<>>,
      <<Player("zed", 999)>>,
      <<StringWager("fa"), NullEntry>>,
      MixedList,
      LongList(MaxListLen) }

\* the lists sent inside an object, with and without the ended flag
ObjectLists == { <<>>, MixedList }

\* what the request ends in: status is "reject" (fetch rejects), "http500",
\* "badjson" (response.json() rejects) or "ok" (a parsed JSON value);
\* shape is the kind of the parsed value, dataKind the kind of its data field
Failure(st) ==
    [status |-> st, shape |-> "none", dataKind |-> "none", data |-> <<>>, ended |-> FALSE]
ArrayBody(list) ==
    [status |-> "ok", shape |-> "array", dataKind |-> "none", data |-> list, ended |-> FALSE]
ObjectBody(list, e) ==
    [status |-> "ok", shape |-> "object", dataKind |-> "array", data |-> list, ended |-> e]
\* null, 5, "text", {} and {ended: true}, {data: 5}
OtherBody(sh, dk, e) ==
    [status |-> "ok", shape |-> sh, dataKind |-> dk, data |-> <<>>, ended |-> e]

Failures == {Failure("reject"), Failure("http500"), Failure("badjson")}
ListBodies ==
    {ArrayBody(l) : l \in Lists} \cup {ObjectBody(l, e) : l \in ObjectLists, e \in BOOLEAN}
OtherBodies ==
    { OtherBody("null", "none", FALSE), OtherBody("number", "none", FALSE),
      OtherBody("string", "none", FALSE), OtherBody("object", "none", FALSE),
      OtherBody("object", "none", TRUE), OtherBody("object", "number", FALSE) }
Responses == Failures \cup ListBodies \cup OtherBodies

-----------------------------------------------------------------------------
(* filter, sort, slice, formatCurrency *)

\* mutant: any amount that is present passes
IsNumericLoose(player) == player.kind = "object" /\ player.wtype # "undefined"

\* typeof player?.wagerAmount === "number" (with "player &&" in the later handlers:
\* the same entries pass)
IsNumeric(player) == player.kind = "object" /\ player.wtype = "number"

RECURSIVE Filter(_)
Filter(list) ==
    IF list = <<>> THEN <<>>
    ELSE IF IsNumeric(Head(list)) THEN <<Head(list)>> \o Filter(Tail(list))
    ELSE Filter(Tail(list))

\* the comparator (a, b) => b.wagerAmount - a.wagerAmount
Compare(a, b) == b.wagerAmount - a.wagerAmount

\* insert x behind every element that does not sort after it (the sort is stable)
RECURSIVE Insert(_, _)
Insert(x, sorted) ==
    IF sorted = <<>> THEN <<x>>
    ELSE IF Compare(Head(sorted), x) <= 0 THEN <<Head(sorted)>> \o Insert(x, Tail(sorted))
    ELSE <<x>> \o sorted

RECURSIVE SortFrom(_, _)
SortFrom(list, acc) ==
    IF list = <<>> THEN acc ELSE SortFrom(Tail(list), Insert(Head(list), acc))

Sort(list) == SortFrom(list, <<>>)

Slice(list, n) == SubSeq(list, 1, IF Len(list) < n THEN Len(list) ELSE n)

TopPlayers(data) == Slice(Sort(Filter(data)), MAX_PLAYERS)

\* digits of n >= 0 grouped in threes by commas
RECURSIVE Grouped(_)
Grouped(n) ==
    IF n < 1000 THEN ToString(n)
    ELSE LET r == n % 1000
         IN  Grouped(n \div 1000) \o ","
                \o (IF r < 10 THEN "00" ELSE IF r < 100 THEN "0" ELSE "") \o ToString(r)

\* toLocaleString("en-US", two fraction digits) of a number of cents
formatCurrency(cents) ==
    LET a == IF cents < 0 THEN 0 - cents ELSE cents
        f == a % 100
    IN  (IF cents < 0 THEN "-" ELSE "") \o Grouped(a \div 100) \o "."
            \o (IF f < 10 THEN "0" ELSE "") \o ToString(f)

-----------------------------------------------------------------------------
(* Rendering into the slots *)

Slots == 0..(MAX_PLAYERS - 1)
HtmlText == "html"            \* the static content of an element of the page
Placeholder == [name |-> "----", wager |-> "----"]

\* mutant: only the name element is tested
HasNameEl(missing, index) == <<index, "name">> \notin missing

\* document.getElementById of both elements of a slot succeeds
HasEls(missing, index) ==
    <<index, "name">> \notin missing /\ <<index, "wager">> \notin missing

\* player.username || "User"
NameOf(player) == IF player.username = "" THEN "User" ELSE player.username

SlotOf(player) == [name |-> NameOf(player), wager |-> formatCurrency(player.wagerAmount)]

\* the loop over all MAX_PLAYERS slots of the later handlers
RenderAll(old, sorted, missing) ==
    [index \in Slots |->
        IF ~HasEls(missing, index) THEN old[index]
        ELSE IF index < Len(sorted) THEN SlotOf(sorted[index + 1])
        ELSE Placeholder]

\* sorted.forEach of the first handler of data.js
RenderEach(old, sorted, missing) ==
    [index \in Slots |->
        IF index < Len(sorted) /\ HasEls(missing, index) THEN SlotOf(sorted[index + 1])
        ELSE old[index]]

-----------------------------------------------------------------------------
(* The clock *)

\* the instant the clock is measured from (keeps millisecond values small)
ModelEpochSec == DateUTC(2025, 11, 8, 0, 0, 0)

\* getTime() of a Date of the source, in ms on the model's clock
Ms(sec) == (sec - ModelEpochSec) * 1000

-----------------------------------------------------------------------------
(* The leaderboard pollers *)

Null == "null"
NoResponse == Failure("none")
NoEvent == [op |-> "none", poller |-> "", seq |-> 0, resp |-> NoResponse, errors |-> 0]
Event(o, p, n, r, e) == [op |-> o, poller |-> p, seq |-> n, resp |-> r, errors |-> e]

Request(p, n, win) ==
    [poller |-> p, seq |-> n, startTime |-> win.startTime, endTime |-> win.endTime]

\* data.js, first handler: now >= endTime sets the flag before the request is built
EndedAtRequest(p, ended, t, win) ==
    IF p = "dataA" /\ t >= Ms(win.endTime) THEN TRUE ELSE ended

\* the place of handler p among the handlers of the script
Position(pg, p) == CHOOSE i \in 1..Len(Handlers(pg)) : Handlers(pg)[i] = p

\* the delay given to setInterval, in ms
Interval(p) ==
    CASE p = "dataA" -> 20000
      [] p = "dataB" -> 10000
      [] p = "part001" -> 12000

\* one DOMContentLoaded dispatch: every registered handler resolves its window, calls
\* updateLeaderboard() and then setInterval
DOMContentLoaded ==
    /\ ~loaded
    /\ loaded' = TRUE
    /\ LET ps == Pollers(page)
           win == [p \in AllPollers |-> ResolveWindow(p, dayParam, etYear, etMonth, rollAt)]
       IN  /\ startTime' = [p \in AllPollers |-> IF p \in ps THEN win[p].startTime ELSE startTime[p]]
           /\ endTime' = [p \in AllPollers |-> IF p \in ps THEN win[p].endTime ELSE endTime[p]]
           /\ leaderboardEnded' =
                [p \in AllPollers |->
                    IF p \in ps THEN EndedAtRequest(p, leaderboardEnded[p], now, win[p])
                    ELSE leaderboardEnded[p]]
           /\ inflight' = inflight \cup {Request(p, nextSeq + Position(page, p), win[p]) : p \in ps}
           /\ nextSeq' = nextSeq + Cardinality(ps)
           /\ refreshInterval' = [p \in AllPollers |-> IF p \in ps THEN p ELSE refreshInterval[p]]
           /\ timers' = timers \cup ps
           /\ due' = [p \in AllPollers |-> IF p \in ps THEN now + Interval(p) ELSE due[p]]
           /\ requestedAt' = [p \in AllPollers |-> IF p \in ps THEN now ELSE requestedAt[p]]
    /\ lastEvent' = Event("load", "", 0, NoResponse, 0)
    /\ UNCHANGED <<page, dayParam, etYear, etMonth, rollAt, slots, missingEls, now, cdVars,
                   endedAt>>

\* mutant: a new request aborts the requests still unresolved
IssueAbortingEarlier(requests, req) == {req}

\* fetch(url, ...): one more request, next to those still unresolved
Issue(requests, req) == requests \cup {req}

\* the setInterval callback of handler p: updateLeaderboard() issues a request
Tick(p) ==
    /\ p \in timers
    /\ now >= due[p]
    /\ due' = [due EXCEPT ![p] = now + Interval(p)]
    /\ requestedAt' = [requestedAt EXCEPT ![p] = now]
    /\ nextSeq < MaxRequests
    /\ Cardinality(inflight) < MaxInFlight
    /\ LET win == [startTime |-> startTime[p], endTime |-> endTime[p]]
       IN  /\ leaderboardEnded' =
                [leaderboardEnded EXCEPT ![p] = EndedAtRequest(p, leaderboardEnded[p], now, win)]
           /\ inflight' = Issue(inflight, Request(p, nextSeq + 1, win))
    /\ nextSeq' = nextSeq + 1
    /\ lastEvent' = Event("tick", p, nextSeq + 1, NoResponse, 0)
    /\ UNCHANGED <<page, loaded, dayParam, etYear, etMonth, rollAt, startTime, endTime,
                   refreshInterval, timers, slots, missingEls, now, cdVars, endedAt>>

\* what the second .then callback does with a parsed body: "throw" (to the catch),
\* or the list to show; cancel = the repeating timer is cleared
Normalize(p, resp) ==
    IF resp.shape = "array"
    THEN [throw |-> FALSE, data |-> resp.data, ended |-> FALSE, errors |-> 0]
    ELSE IF resp.shape = "null"
    THEN [throw |-> TRUE, data |-> <<>>, ended |-> FALSE, errors |-> 0]
    ELSE IF resp.shape = "object" /\ resp.dataKind = "array"
    THEN [throw |-> FALSE, data |-> resp.data, ended |-> resp.ended, errors |-> 0]
    ELSE IF p = "dataA"
    THEN [throw |-> TRUE, data |-> <<>>, ended |-> FALSE, errors |-> 0]
    ELSE [throw |-> FALSE, data |-> <<>>, ended |-> FALSE, errors |-> 1]

\* mutant: the status of the response is not looked at
StatusThrowsOnReject(resp) == resp.status = "reject"

\* the first .then callback throws on a status that is not ok; response.json() rejects
\* on a body that does not parse; fetch itself may reject
StatusThrows(resp) == resp.status # "ok"

\* mutant: no handler clears its interval
CancelsOnEndedNever(p) == FALSE

\* clearInterval(refreshInterval); refreshInterval = null, in the later handlers only
CancelsOnEnded(p) == p # "dataA"

\* mutant: the flag is assigned the ended field of every response
EndedAssigned(flag, ended) == ended

\* if (response.ended) { leaderboardEnded = true; ... }
EndedAfter(flag, ended) == IF ended THEN TRUE ELSE flag

\* mutant: the catch callback also stops the polling
CatchClearsInterval(p, r, resp) ==
    /\ lastEvent' = Event("failed", p, r.seq, resp, 1)
    /\ timers' = timers \ {refreshInterval[p]}
    /\ refreshInterval' = [refreshInterval EXCEPT ![p] = Null]
    /\ UNCHANGED <<leaderboardEnded, slots, endedAt>>

\* the .catch callback of the chain: console.error and nothing else
Catch(p, r, resp) ==
    /\ lastEvent' = Event("failed", p, r.seq, resp, 1)
    /\ UNCHANGED <<leaderboardEnded, refreshInterval, timers, slots, endedAt>>

\* the promise chain of one request settles with resp
Resolve(r, resp) ==
    /\ r \in inflight
    /\ inflight' = inflight \ {r}
    /\ LET p == r.poller
           n == Normalize(p, resp)
           failed == StatusThrows(resp) \/ n.throw
           sorted == TopPlayers(n.data)
       IN  IF failed
           THEN Catch(p, r, resp)
           ELSE /\ leaderboardEnded' =
                    [leaderboardEnded EXCEPT ![p] = EndedAfter(@, n.ended)]
                /\ endedAt' =
                    [endedAt EXCEPT ![p] = IF n.ended /\ @ = 0 THEN nextSeq ELSE @]
                /\ IF n.ended /\ CancelsOnEnded(p) /\ refreshInterval[p] # Null
                   THEN /\ timers' = timers \ {refreshInterval[p]}
                        /\ refreshInterval' = [refreshInterval EXCEPT ![p] = Null]
                   ELSE UNCHANGED <<timers, refreshInterval>>
                /\ IF p = "dataA"
                   THEN IF n.data = <<>>
                        THEN /\ lastEvent' = Event("empty", p, r.seq, resp, n.errors)
                             /\ UNCHANGED slots
                        ELSE /\ lastEvent' = Event("rendered", p, r.seq, resp, n.errors)
                             /\ slots' = RenderEach(slots, sorted, missingEls)
                   ELSE /\ lastEvent' = Event("rendered", p, r.seq, resp, n.errors)
                        /\ slots' = RenderAll(slots, sorted, missingEls)
    /\ UNCHANGED <<page, loaded, dayParam, etYear, etMonth, rollAt, startTime, endTime,
                   nextSeq, missingEls, due, requestedAt, now, cdVars>>

\* time passes: the clock moves to a later instant of the set
Advance(instants) ==
    /\ \E t \in instants : t > now /\ now' = t
    /\ UNCHANGED <<lbVars, cdVars, timers, lastEvent, endedAt>>

-----------------------------------------------------------------------------
(* The countdown *)

Uninitialized == "uninitialized"   \* the const before its declaration has run
CountdownHandle == "countdown"

\* targetDate.getTime(), in seconds
TargetDate(script) ==
    IF script = "timer.js" THEN DateUTC(2025, 10, 30, 18 + 7, 59, 59)
    ELSE DateUTC(2025, 11, 30, 23, 59, 59)

\* mutant: the operands of the subtraction are exchanged
DifferenceReversed(script, t) == t - Ms(TargetDate(script))

\* difference = targetDate.getTime() - nowUTC.getTime()
Difference(script, t) == Ms(TargetDate(script)) - t

\* String(n).padStart(2, '0')
PadStart2(n) == IF n < 10 THEN "0" \o ToString(n) ELSE ToString(n)

Days(d) == d \div (1000 * 60 * 60 * 24)
Hours(d) == (d % (1000 * 60 * 60 * 24)) \div (1000 * 60 * 60)
Minutes(d) == (d % (1000 * 60 * 60)) \div (1000 * 60)
Seconds(d) == (d % (1000 * 60)) \div 1000

\* the template literal written while time remains (d > 0)
Display(script, d) ==
    IF script = "timer.js"
    THEN ToString(Days(d)) \o "D " \o ToString(Hours(d)) \o "H "
            \o ToString(Minutes(d)) \o "M " \o ToString(Seconds(d)) \o "S"
    ELSE PadStart2(Days(d)) \o "D " \o PadStart2(Hours(d)) \o "H "
            \o PadStart2(Minutes(d)) \o "M " \o PadStart2(Seconds(d)) \o "S"

ExpiredText(script) ==
    IF script = "timer.js" THEN "Countdown expired!" ELSE "00D 00H 00M 00S"

\* the element the expired text is written to
ExpiredElement(script) == IF script = "timer.js" THEN "timer" ELSE "countdown"

NoCalc == [called |-> FALSE, difference |-> 0, threw |-> FALSE]
Calc(d, t) == [called |-> TRUE, difference |-> d, threw |-> t]

\* the script runs: calculateTimeRemaining() is called first, while the const
\* timerInterval is not yet initialized, so clearInterval(timerInterval) throws a
\* ReferenceError and the script ends there; otherwise setInterval follows
LoadTimerScript ==
    /\ scriptState = "pending"
    /\ LET d == Difference(timerScript, now)
       IN  IF d <= 0
           THEN /\ scriptState' = "aborted"
                /\ lastCalc' = Calc(d, timerInterval = Uninitialized)
                /\ UNCHANGED <<timerInterval, timers, countdownEl, timerEl>>
           ELSE /\ countdownEl' = Display(timerScript, d)
                /\ lastCalc' = Calc(d, FALSE)
                /\ scriptState' = "running"
                /\ timerInterval' = CountdownHandle
                /\ timers' = timers \cup {CountdownHandle}
                /\ UNCHANGED timerEl
    /\ UNCHANGED <<timerScript, expiredWrites, lbVars, now, lastEvent, endedAt>>

\* the setInterval callback: calculateTimeRemaining()
CountdownTick ==
    /\ timerInterval \in timers
    /\ LET d == Difference(timerScript, now)
       IN  IF d <= 0
           THEN /\ timers' = timers \ {timerInterval}
                /\ IF ExpiredElement(timerScript) = "timer"
                   THEN timerEl' = ExpiredText(timerScript) /\ UNCHANGED countdownEl
                   ELSE countdownEl' = ExpiredText(timerScript) /\ UNCHANGED timerEl
                /\ expiredWrites' = expiredWrites + 1
                /\ lastCalc' = Calc(d, FALSE)
           ELSE /\ countdownEl' = Display(timerScript, d)
                /\ lastCalc' = Calc(d, FALSE)
                /\ UNCHANGED <<timers, timerEl, expiredWrites>>
    /\ UNCHANGED <<timerScript, scriptState, timerInterval, lbVars, now, lastEvent, endedAt>>

-----------------------------------------------------------------------------
(* Initial states and specifications *)

InitWith(pages, params, reads, doms, instants, scripts) ==
    /\ page \in pages
    /\ loaded = FALSE
    /\ dayParam \in params
    /\ \E rd \in reads : etYear = rd.year /\ etMonth = rd.month /\ rollAt = rd.roll
    /\ startTime = [p \in AllPollers |-> NoTime]
    /\ endTime = [p \in AllPollers |-> NoTime]
    /\ refreshInterval = [p \in AllPollers |-> Null]
    /\ leaderboardEnded = [p \in AllPollers |-> FALSE]
    /\ timers = {}
    /\ due = [p \in AllPollers |-> 0]
    /\ requestedAt = [p \in AllPollers |-> 0]
    /\ nextSeq = 0
    /\ inflight = {}
    /\ slots = [index \in Slots |-> [name |-> HtmlText, wager |-> HtmlText]]
    /\ missingEls \in doms
    /\ timerScript \in scripts
    /\ now \in instants[timerScript]
    /\ lastEvent = NoEvent
    /\ endedAt = [p \in AllPollers |-> 0]
    /\ scriptState = "pending"
    /\ timerInterval = Uninitialized
    /\ countdownEl = HtmlText
    /\ timerEl = HtmlText
    /\ lastCalc = NoCalc
    /\ expiredWrites = 0

Pages == {"data.js", "part_001"}
Scripts == {"timer.js", "part_000"}

\* a read of the clock: year and month in New York, and how many of the handler's
\* three reads come before the month changes (3: it does not change meanwhile)
Read(y, m, roll) == [year |-> y, month |-> m, roll |-> roll]

\* the page with every slot element, and a page lacking two of them
DomConfigs == { {}, {<<1, "name">>, <<4, "wager">>} }

\* instants before, at and after the first handler's endTime, far enough apart for
\* every interval to elapse
LeaderboardClock ==
    LET t == Ms(ResolveWindowTarget.endTime) IN {t - 1000, t, t + 12000, t + 24000}

Init ==
    InitWith(Pages, {Param(<<"5">>)}, {Read(2025, 10, 3)}, DomConfigs,
             [sc \in Scripts |-> LeaderboardClock], {"part_000"})

Next ==
    \/ DOMContentLoaded
    \/ \E p \in AllPollers : Tick(p)
    \/ \E r \in inflight : \E resp \in Responses : Resolve(r, resp)
    \/ Advance(LeaderboardClock)

Spec == Init /\ [][Next]_vars

-----------------------------------------------------------------------------
(* The window resolver over page-load times and day parameters *)

DayParams ==
    { NullParam, Param(<<>>), Param(<<"0">>), Param(<<"1">>), Param(<<"9">>),
      Param(<<"1", "5">>), Param(<<"2", "8">>), Param(<<"2", "9">>), Param(<<"3", "0">>),
      Param(<<"3", "1">>), Param(<<"3", "2">>), Param(<<"-", "1">>), Param(<<"a", "b", "c">>),
      Param(<<"7", "x">>), Param(<<" ", "0", "8">>), Param(<<"0", "x", "1", "f">>),
      Param(<<"1", ".", "9">>), Param(<<"1", "0", "0">>) }

Reads ==
    {Read(y, m, 3) : y \in {2024, 2025}, m \in 0..11}
        \cup {Read(2025, m, roll) : m \in {0, 1, 10, 11}, roll \in 1..2}

\* fetch rejects, or an empty ended leaderboard
WindowResponses == {Failure("reject"), ObjectBody(<<>>, TRUE)}

\* the page is loaded at the first instant; the intervals have elapsed at the second
WindowClock ==
    LET t == Ms(ResolveWindowTarget.endTime) IN {t - 1000, t + 24000}

InitWindow ==
    InitWith(Pages, DayParams, Reads, {{}},
             [sc \in Scripts |-> {Ms(ResolveWindowTarget.endTime) - 1000}], {"part_000"})

NextWindow ==
    \/ DOMContentLoaded
    \/ \E p \in AllPollers : Tick(p)
    \/ \E r \in inflight : \E resp \in WindowResponses : Resolve(r, resp)
    \/ Advance(WindowClock)

SpecWindow == InitWindow /\ [][NextWindow]_vars

-----------------------------------------------------------------------------
(* The countdown over load times before, at and after the target *)

\* values of target - now, in ms
DiffSamples ==
    { 0 - 5000, 0 - 1, 0, 1, 999, 1000, 1001, 59999, 60000, 3599999, 3600000,
      86399999, 86400000, 90061000, 900610500, 1036799999 }

CountdownClock == [sc \in Scripts |-> {Ms(TargetDate(sc)) - d : d \in DiffSamples}]

InitCountdown ==
    InitWith({"part_001"}, {NullParam}, {Read(2025, 11, 3)}, {{}}, CountdownClock, Scripts)

NextCountdown ==
    \/ LoadTimerScript
    \/ CountdownTick
    \/ Advance(CountdownClock[timerScript])

SpecCountdown == InitCountdown /\ [][NextCountdown]_vars

-----------------------------------------------------------------------------
(* The schedule of the requests, on a clock of two-second steps *)

ScheduleClock ==
    LET t == Ms(ResolveWindowTarget.endTime) IN {t - 24000 + 2000 * k : k \in 0..12}

\* status 500, or a list of one entry
ScheduleResponses == {Failure("http500"), ArrayBody(<<Player("zed", 999)>>)}

InitSchedule ==
    InitWith(Pages, {NullParam}, {Read(2025, 10, 3)}, {{}},
             [sc \in Scripts |-> ScheduleClock], {"part_000"})

NextSchedule ==
    \/ DOMContentLoaded
    \/ \E p \in AllPollers : Tick(p)
    \/ \E r \in inflight : \E resp \in ScheduleResponses : Resolve(r, resp)
    \/ Advance(ScheduleClock)

SpecSchedule == InitSchedule /\ [][NextSchedule]_vars

-----------------------------------------------------------------------------
(* A page with its countdown and its leaderboard, under fair scheduling *)

\* a second before the countdown's target, the target, and 20 seconds after it
LiveClock ==
    [sc \in Scripts |-> LET t == Ms(TargetDate(sc)) IN {t - 1000, t, t + 20000}]

\* fetch rejects, an empty ended leaderboard, or a list of one entry
LiveResponses ==
    {Failure("reject"), ObjectBody(<<>>, TRUE), ArrayBody(<<Player("zed", 999)>>)}

\* data.js comes with timer.js, the later leaderboard script with the later countdown
InitLive ==
    \/ InitWith({"data.js"}, {NullParam}, {Read(2025, 10, 3)}, {{}}, LiveClock, {"timer.js"})
    \/ InitWith({"part_001"}, {NullParam}, {Read(2025, 11, 3)}, {{}}, LiveClock, {"part_000"})

ResolveSome == \E r \in inflight : \E resp \in LiveResponses : Resolve(r, resp)
TickSome == \E p \in AllPollers : Tick(p)

NextLive ==
    \/ LoadTimerScript
    \/ CountdownTick
    \/ DOMContentLoaded
    \/ TickSome
    \/ ResolveSome
    \/ Advance(LiveClock[timerScript])

\* the browser runs the scripts and the handlers, the clock goes on, a timer that is
\* due runs, and every request is settled
FairLive ==
    /\ WF_vars(LoadTimerScript)
    /\ WF_vars(DOMContentLoaded)
    /\ WF_vars(CountdownTick)
    /\ WF_vars(TickSome)
    /\ WF_vars(Advance(LiveClock[timerScript]))
    /\ WF_vars(ResolveSome)

SpecLive == InitLive /\ [][NextLive]_vars /\ FairLive

-----------------------------------------------------------------------------
(* Claims *)

\* the handlers written after the first handler of data.js
LaterHandlers == {"dataB", "part001"}

C2_SlotsFrozenAfterEnded ==
    [][endedAt["part001"] > 0 => slots' = slots]_vars

\* C2 (amended): after a later handler has processed an ended response, the slots
\* change only when a request resolves that is another handler's or that this
\* handler had issued before it processed the ended response.
C2_OnlyEarlierRequestsRender ==
    [][\A p \in LaterHandlers :
          (endedAt[p] > 0 /\ slots' # slots)
              => \E r \in inflight \ inflight' : r.poller # p \/ r.seq <= endedAt[p]]_vars

\* request 2 brought the ended response; request 1, issued earlier, resolved after
\* it and replaced what was shown
C2_Witness ==
    /\ endedAt["part001"] = 2
    /\ lastEvent.op = "rendered"
    /\ lastEvent.seq = 1
    /\ ~lastEvent.resp.ended
    /\ lastEvent.resp.data = MixedList
    /\ slots[0] = [name |-> "ha", wager |-> "1,234,567.89"]

\* the response is a list of entries: a bare list, or an object holding one
IsListBody(resp) ==
    resp.status = "ok"
        /\ (resp.shape = "array" \/ (resp.shape = "object" /\ resp.dataKind = "array"))

\* places of the entries of a list whose wagerAmount is a number
NumIdx(list) ==
    {j \in 1..Len(list) : list[j].kind = "object" /\ list[j].wtype = "number"}

\* how many numeric entries come before entry j in descending order of amount
\* (earlier in the list first among equal amounts)
Rank(list, j) ==
    Cardinality({i \in NumIdx(list) :
                    \/ list[i].wagerAmount > list[j].wagerAmount
                    \/ (list[i].wagerAmount = list[j].wagerAmount /\ i < j)})

\* the names of the entries of the response lists that have no numeric amount
NonNumericNames ==
    UNION {{l[j].username : j \in {i \in 1..Len(l) : l[i].kind = "object"} \ NumIdx(l)} : l \in Lists}

\* C3: a cycle that received a list shows in slot r (when the page has its
\* elements) the numeric entry of rank r in descending order of amount, for the
\* ranks below 10; an entry of rank 10 or more and an entry without a numeric
\* amount are shown in no slot; a list never takes the cycle to the catch.
C3_NumericSortedTop10 ==
    /\ lastEvent.op = "failed" => ~IsListBody(lastEvent.resp)
    /\ \A index \in Slots : slots[index].name \notin NonNumericNames
    /\ (lastEvent.op = "rendered" /\ IsListBody(lastEvent.resp)) =>
          LET list == lastEvent.resp.data
          IN  \A j \in NumIdx(list) :
                IF Rank(list, j) < 10
                THEN HasEls(missingEls, Rank(list, j))
                        => slots[Rank(list, j)] = SlotOf(list[j])
                ELSE \A index \in Slots : slots[index].name # list[j].username

\* a list of more than 10 numeric entries mixed with others has been rendered
C3_Witness ==
    /\ lastEvent.op = "rendered"
    /\ lastEvent.resp.data = LongList(MaxListLen)
    /\ Cardinality(NumIdx(lastEvent.resp.data)) > 10
    /\ Len(lastEvent.resp.data) > Cardinality(NumIdx(lastEvent.resp.data))
    /\ slots[0] = [name |-> "p11", wager |-> "12,006.00"]

\* C4 (as claimed, for a list with at least one numeric entry): after a cycle that
\* received a list with k < 10 numeric entries, the slots 0..k-1 show the sorted
\* entries and the slots k..9 show the placeholder pair (for the slots whose
\* elements the page has).
C4_PlaceholdersBeyondEntries ==
    (lastEvent.op \in {"rendered", "empty"} /\ IsListBody(lastEvent.resp)) =>
        LET list == lastEvent.resp.data
            k == Cardinality(NumIdx(list))
        IN  (1 <= k /\ k < 10) =>
                /\ \A j \in NumIdx(list) :
                      HasEls(missingEls, Rank(list, j))
                          => slots[Rank(list, j)] = SlotOf(list[j])
                /\ \A index \in Slots :
                      (index >= k /\ HasEls(missingEls, index))
                          => slots[index] = Placeholder

\* C5: a cycle ending in a status that is not ok, or in a body that does not
\* parse, leaves the slots as they were and logs one error.
C5_FailedCycleKeepsSlots ==
    [][(lastEvent' # lastEvent /\ lastEvent'.resp.status \in {"http500", "badjson"})
          => (slots' = slots /\ lastEvent'.op = "failed" /\ lastEvent'.errors = 1)]_vars

\* a cycle failed on status 500 while an earlier render is on screen
C5_Witness ==
    /\ lastEvent.op = "failed"
    /\ lastEvent.resp.status = "http500"
    /\ lastEvent.errors = 1
    /\ slots[0] = [name |-> "zed", wager |-> "9.99"]

\* C6 (as claimed, for the later handlers): a parsed body that is neither a list
\* nor an object with a data list ends the cycle outside the catch, with every
\* slot the page has showing the placeholder.
C6_OtherShapesRenderEmpty ==
    (lastEvent.resp \in OtherBodies /\ lastEvent.poller \in LaterHandlers) =>
        /\ lastEvent.op = "rendered"
        /\ \A index \in Slots : HasEls(missingEls, index) => slots[index] = Placeholder

\* the element the countdown writes the expired text to
ExpiredShown ==
    (IF ExpiredElement(timerScript) = "timer" THEN timerEl ELSE countdownEl)
        = ExpiredText(timerScript)

\* C7 (as claimed): whenever calculateTimeRemaining has run with target - now <= 0,
\* also as the first call of the script, the expired text is shown and the
\* 1-second timer is not active.
C7_ExpiredShownAndCancelled ==
    (lastCalc.called /\ lastCalc.difference <= 0)
        => (ExpiredShown /\ CountdownHandle \notin timers)

TwoDigits(n) == IF n < 10 THEN "0" \o ToString(n) ELSE ToString(n)

\* C8 (as claimed): after a run with d = target - now > 0 the display reads
\* DDD HHH MMM SSS, each field of at least two digits, with D = d div 86400000,
\* H < 24, M < 60, S < 60 and D*86400 + H*3600 + M*60 + S = d div 1000.
C8_PaddedFields ==
    (lastCalc.called /\ lastCalc.difference > 0) =>
        LET d == lastCalc.difference
            total == d \div 1000
            D == d \div 86400000
            rest == total - D * 86400
            H == rest \div 3600
            M == (rest % 3600) \div 60
            S == rest % 60
        IN  /\ H \in 0..23 /\ M \in 0..59 /\ S \in 0..59
            /\ D * 86400 + H * 3600 + M * 60 + S = total
            /\ countdownEl = TwoDigits(D) \o "D " \o TwoDigits(H) \o "H "
                                \o TwoDigits(M) \o "M " \o TwoDigits(S) \o "S"

\* America/New_York: daylight time runs from 2:00 on the second Sunday of March
\* to 2:00 on the first Sunday of November
DayOfWeek(days) == (days + 4) % 7        \* 0 = Sunday; 1 January 1970 was a Thursday
FirstSunday(y, m) ==
    1 + ((7 - DayOfWeek(DaysBeforeYear(y) + DaysBeforeMonth(y, m))) % 7)
NewYorkOffsetHours(y, m, d, h) ==
    IF \/ (m >= 3 /\ m <= 9)
       \/ (m = 2 /\ (d > FirstSunday(y, 2) + 7 \/ (d = FirstSunday(y, 2) + 7 /\ h >= 3)))
       \/ (m = 10 /\ (d < FirstSunday(y, 10) \/ (d = FirstSunday(y, 10) /\ h < 1)))
    THEN 4 ELSE 5
\* the instant, in seconds, of a wall-clock time in New York
NewYorkInstant(y, m, d, h, mi, sec) ==
    DateUTC(y, m, d, h, mi, sec) + NewYorkOffsetHours(y, m, d, h) * 3600

\* C9 (as claimed): for a day override in 1..31 that is a day of the window's month,
\* the window is 00:00:00 to 23:59:59 of that day in the zone of the handler (UTC in
\* data.js, New York in the later script); for any other value it is the default.
C9_DayWindowExact ==
    loaded =>
        LET day == ParseInt(dayParam.chars)
            read == EtRead(etYear, etMonth, rollAt, 3)
        IN  IF Truthy(dayParam) /\ ~day.nan /\ day.val \in 1..31
            THEN /\ page = "data.js" =>
                      /\ startTime["dataB"] = DateUTC(2025, 11, day.val, 0, 0, 0)
                      /\ endTime["dataB"] = DateUTC(2025, 11, day.val, 23, 59, 59)
                 /\ (page = "part_001" /\ day.val <= DaysInMonth(read.year, read.month)) =>
                      /\ startTime["part001"] =
                            NewYorkInstant(read.year, read.month, day.val, 0, 0, 0)
                      /\ endTime["part001"] =
                            NewYorkInstant(read.year, read.month, day.val, 23, 59, 59)
            ELSE /\ page = "data.js" =>
                      /\ startTime["dataB"] = DateUTC(2025, 11, 1, 0, 0, 0)
                      /\ endTime["dataB"] = DateUTC(2025, 11, 30, 23, 59, 59)
                 /\ page = "part_001" =>
                      /\ startTime["part001"] =
                            getMonthStartEastern(EtRead(etYear, etMonth, rollAt, 1))
                      /\ endTime["part001"] =
                            getMonthEndEastern(EtRead(etYear, etMonth, rollAt, 2))

\* C10: whatever the load time and the day parameter, the resolved window of a
\* handler has startTime <= endTime, it does not change after the load, and every
\* request carries it.
C10_WindowOrderedAndFixed ==
    [][/\ loaded => (startTime' = startTime /\ endTime' = endTime)
       /\ loaded' => \A p \in Pollers(page) \cap LaterHandlers : startTime'[p] <= endTime'[p]
       /\ \A r \in inflight' :
             r.startTime = startTime'[r.poller] /\ r.endTime = endTime'[r.poller]]_vars

\* two requests of the later script are in flight with the window of a single day
C10_Witness ==
    /\ loaded
    /\ page = "part_001"
    /\ dayParam = Param(<<"0", "x", "1", "f">>)
    /\ Cardinality(inflight) = 2
    /\ \A r \in inflight : r.endTime - r.startTime = 86399

\* the backend's documented rate limit: one request per 10 seconds, in ms
RateLimitPeriod == 10000

\* C11 (as claimed, for the requests of one handler): the load issues a request of
\* every handler at once, and a later request of a handler comes strictly more than
\* the rate-limit period after that handler's previous request.
C11_RequestsAboveRateLimit ==
    [][/\ (~loaded /\ loaded') =>
             \A p \in Pollers(page) : \E r \in inflight' \ inflight : r.poller = p
       /\ \A p \in AllPollers :
             (loaded /\ \E r \in inflight' \ inflight : r.poller = p)
                 => now' - requestedAt[p] > RateLimitPeriod]_vars

\* the request ended in a rejection: fetch rejected, the status was not ok, the
\* body did not parse, or the body was null (reading its data property throws)
Rejected(resp) == resp.status \in {"reject", "http500", "badjson"} \/ resp.shape = "null"

\* C12: the step in which a cycle fails changes neither the ended flags nor the
\* handles nor the active timers nor the instants their next runs are due; it
\* issues no request (no retry) and leaves the window of the next request as it was.
C12_FailureChangesOnlyLog ==
    [][(lastEvent' # lastEvent /\ Rejected(lastEvent'.resp)) =>
          /\ lastEvent'.op = "failed"
          /\ leaderboardEnded' = leaderboardEnded
          /\ refreshInterval' = refreshInterval
          /\ timers' = timers
          /\ due' = due
          /\ nextSeq' = nextSeq
          /\ inflight' \subseteq inflight
          /\ startTime' = startTime /\ endTime' = endTime]_vars

\* the second cycle of the later script failed on an unparsable body; the timer is
\* still active and nothing is in flight
C12_Witness ==
    /\ page = "part_001"
    /\ lastEvent.op = "failed"
    /\ lastEvent.seq = 2
    /\ lastEvent.resp.status = "badjson"
    /\ refreshInterval["part001"] = "part001"
    /\ "part001" \in timers
    /\ ~leaderboardEnded["part001"]
    /\ inflight = {}

\* every request that has settled ended in a render (for the first handler of
\* data.js also in its return on an empty list) or in the catch with one logged error
CycleEndedHandled ==
    /\ lastEvent.resp # NoResponse => lastEvent.op \in {"rendered", "empty", "failed"}
    /\ lastEvent.op = "failed" => lastEvent.errors = 1

\* C13 (as claimed): no code path of a widget ends in an uncaught exception: every
\* leaderboard cycle ends in a render or in a caught, logged failure, and no script
\* of the page is ended by an exception.
C13_NoUncaughtException ==
    /\ CycleEndedHandled
    /\ scriptState # "aborted"

\* C14: a tick adds its request to those still in flight; a response that resolves
\* successfully is rendered whatever the number of its request: the slots then show
\* its numeric entries by rank (and, for the later handlers, placeholders behind
\* them); a cycle that fails leaves the slots as the last render left them.
C14_LastResolvedWins ==
    /\ [](lastEvent.op = "rendered" =>
             LET list == lastEvent.resp.data
                 k == Cardinality(NumIdx(list))
             IN  /\ \A j \in NumIdx(list) :
                       LET rank == Rank(list, j)
                       IN  IF rank < MAX_PLAYERS /\ HasEls(missingEls, rank)
                           THEN slots[rank] = SlotOf(list[j])
                           ELSE TRUE
                 /\ lastEvent.poller \in LaterHandlers =>
                       \A index \in Slots :
                           (index >= k /\ HasEls(missingEls, index))
                               => slots[index] = Placeholder)
    /\ [][/\ (lastEvent' # lastEvent /\ lastEvent'.op = "tick") =>
                /\ inflight \subseteq inflight'
                /\ Cardinality(inflight') = Cardinality(inflight) + 1
          /\ (lastEvent' # lastEvent /\ lastEvent'.op = "failed") => slots' = slots]_vars

\* on the page of the later script request 2 has resolved, and after it request 1,
\* whose list of one entry is what the slots show
C14_Witness ==
    /\ page = "part_001"
    /\ nextSeq = 2
    /\ inflight = {}
    /\ lastEvent.op = "rendered"
    /\ lastEvent.seq = 1
    /\ lastEvent.resp = ArrayBody(<<Player("zed", 999)>>)
    /\ slots[0] = [name |-> "zed", wager |-> "9.99"]
    /\ slots[2] = Placeholder

\* C15: an ended flag that is true stays true; after the load, a handle that is
\* null stays null and a timer that is not active does not become active.
C15_SessionStateMonotone ==
    [][\A p \in AllPollers :
          /\ leaderboardEnded[p] => leaderboardEnded'[p]
          /\ (loaded /\ refreshInterval[p] = Null) => refreshInterval'[p] = Null
          /\ (loaded /\ p \notin timers) => p \notin timers']_vars

\* the second handler of data.js has rendered a response without the ended flag
\* after it had processed an ended one: its flag is true and its handle null
C15_Witness ==
    /\ endedAt["dataB"] > 0
    /\ lastEvent.poller = "dataB"
    /\ lastEvent.op = "rendered"
    /\ lastEvent.resp.shape = "array"
    /\ leaderboardEnded["dataB"]
    /\ refreshInterval["dataB"] = Null
    /\ "dataB" \notin timers

\* C16 (as claimed): at most one active repeating timer polls the leaderboard and
\* writes the slots, and at most one drives the countdown.
C16_OneTimerPerWidget ==
    /\ Cardinality(timers \cap AllPollers) <= 1
    /\ Cardinality(timers \ AllPollers) <= 1

\* the remaining time a write of the countdown shows, in seconds: the four fields
\* of the display, or zero for the expired text
ShownSeconds(d) ==
    IF d <= 0 THEN 0
    ELSE Days(d) * 86400 + Hours(d) * 3600 + Minutes(d) * 60 + Seconds(d)

\* C17: the clock never goes back; a run of calculateTimeRemaining that writes shows
\* the fields of its own difference, never a negative time and never more than the
\* write before it; after the run that wrote the expired text nothing is written.
C17_RemainingNeverIncreases ==
    [][/\ now' >= now
       /\ (lastCalc' # lastCalc /\ ~lastCalc'.threw) =>
             /\ lastCalc'.difference > 0 =>
                   countdownEl' = Display(timerScript, lastCalc'.difference)
             /\ ShownSeconds(lastCalc'.difference) >= 0
             /\ lastCalc.called =>
                   ShownSeconds(lastCalc'.difference) <= ShownSeconds(lastCalc.difference)
       /\ (lastCalc.called /\ ~lastCalc.threw /\ lastCalc.difference <= 0) =>
             (countdownEl' = countdownEl /\ timerEl' = timerEl /\ lastCalc' = lastCalc)]_vars

\* timer.js, loaded less than a second before the target, has then run at or after
\* it: the last remaining time written was zero seconds, then the expired text
C17_Witness ==
    /\ timerScript = "timer.js"
    /\ scriptState = "running"
    /\ countdownEl = "0D 0H 0M 0S"
    /\ timerEl = "Countdown expired!"
    /\ lastCalc.difference <= 0
    /\ CountdownHandle \notin timers

\* the page lacks the name element or the wager element of the slot
LacksElement(index) ==
    <<index, "name">> \in missingEls \/ <<index, "wager">> \in missingEls

\* C18: no step writes a slot that lacks an element; a cycle that received a list
\* does not go to the catch and logs no error, and when it renders it writes every
\* slot that has both elements: the entries by rank and, in the later handlers, the
\* placeholder behind them.
C18_MissingSlotsSkipped ==
    /\ [][\A index \in Slots : LacksElement(index) => slots'[index] = slots[index]]_vars
    /\ [](IsListBody(lastEvent.resp) =>
             LET list == lastEvent.resp.data
                 k == Cardinality(NumIdx(list))
             IN  /\ lastEvent.op \in {"rendered", "empty"}
                 /\ lastEvent.errors = 0
                 /\ lastEvent.op = "rendered" =>
                       /\ \A j \in NumIdx(list) :
                             LET rank == Rank(list, j)
                             IN  IF rank < MAX_PLAYERS /\ ~LacksElement(rank)
                                 THEN slots[rank] = SlotOf(list[j])
                                 ELSE TRUE
                       /\ lastEvent.poller \in LaterHandlers =>
                             \A index \in Slots :
                                 (index >= k /\ ~LacksElement(index))
                                     => slots[index] = Placeholder)

\* the page lacks user1_name and user4_wager; the later script has rendered a list
\* of six numeric entries: slots 1 and 4 keep the page's content, the others are
\* written
C18_Witness ==
    /\ page = "part_001"
    /\ missingEls = {<<1, "name">>, <<4, "wager">>}
    /\ lastEvent.op = "rendered"
    /\ lastEvent.errors = 0
    /\ lastEvent.resp.data = MixedList
    /\ slots[0] = [name |-> "ha", wager |-> "1,234,567.89"]
    /\ slots[1] = [name |-> HtmlText, wager |-> HtmlText]
    /\ slots[2] = [name |-> "ed", wager |-> "500.00"]
    /\ slots[4] = [name |-> HtmlText, wager |-> HtmlText]
    /\ slots[5] = [name |-> "gi", wager |-> "-2.50"]
    /\ slots[6] = Placeholder

\* C19 (as claimed): between callbacks, for every handler the page has started, the
\* handle is null if and only if the ended flag is true.
C19_HandleAbsentIffEnded ==
    loaded => \A p \in Pollers(page) : (refreshInterval[p] = Null) <=> leaderboardEnded[p]

\* C19 (amended): the same for the second handler of data.js and for the handler of
\* the later script, with the timer active exactly while the handle is held; the
\* first handler of data.js sets its flag and keeps its handle.
C19_LaterHandleAbsentIffEnded ==
    loaded =>
        \A p \in Pollers(page) \cap LaterHandlers :
            /\ (refreshInterval[p] = Null) <=> leaderboardEnded[p]
            /\ (p \in timers) <=> (refreshInterval[p] # Null)

\* the later script has processed the ended response of its second request while
\* its first is still in flight: the callback of the first will begin with the
\* flag true and the handle null
C19_Witness ==
    /\ page = "part_001"
    /\ endedAt["part001"] = 2
    /\ leaderboardEnded["part001"]
    /\ refreshInterval["part001"] = Null
    /\ \E r \in inflight : r.seq = 1

\* the countdown is over: the expired text is shown, it has been written once, and
\* the 1-second timer is not active
CountdownTerminal ==
    ExpiredShown /\ expiredWrites = 1 /\ CountdownHandle \notin timers

\* handler p polls no more: its timer is not active and it has no request in flight
Quiet(p) == p \notin timers /\ \A r \in inflight : r.poller # p

=============================================================================
